---- MODULE Spec2Model ----
\* Minesweeper tile engine (backend/tile.py): the per-tile state machine, the
\* flood-fill open, the chord (double) and the flag / easy-flag operations,
\* over boards wired as rectangular grids with 8-neighbourhoods.
EXTENDS Integers, FiniteSets, Sequences, TLC

\* ---------------------------------------------------------------- constants
MINE == -1
BLAST == -2
WRONGFLAG == -3
UNFLAGGED == -4
COVERED == 9
DOWN == 10
FLAGGED == 11

\* ------------------------------------------------------------------- bounds
\* Largest number of mines the construction step places on a board.
MaxMines == 2
\* Cap on how far a tile's neighbour_flags counter may run ahead of the number
\* of its flagged neighbours (the counter itself is unbounded).
MaxDrift == 1

\* Board shapes <<width, height>> the construction step wires.
Shapes == {<<1, 1>>, <<2, 1>>, <<3, 1>>}
SquareShapes == {<<2, 2>>}
GameShapes == {<<3, 2>>}

VARIABLES
    neighbours,        \* tile -> set of tiles           (Tile.neighbours)
    value,             \* tile -> MINE or 0..8           (Tile.value)
    flagged,           \* tile -> BOOLEAN                (Tile.flagged)
    covered,           \* tile -> BOOLEAN                (Tile.covered)
    down,              \* tile -> BOOLEAN                (Tile.down)
    status,            \* tile -> display code           (Tile.status)
    neighbour_flags,   \* tile -> Int                    (Tile.neighbour_flags)
    last,              \* the latest call: operation, target, arguments, result
    pre                \* the tiles' fields as they were when that call began

vars == <<neighbours, value, flagged, covered, down, status, neighbour_flags,
          last, pre>>

Tiles == DOMAIN neighbours

\* ------------------------------------------------------------ board wiring
\* Tile i of a w-wide grid sits at column i % w, row i \div w.
Abs(n) == IF n < 0 THEN 0 - n ELSE n

GridNeighbours(shape, t) ==
    LET w == shape[1]
        n == shape[1] * shape[2]
    IN  {u \in 0..(n - 1) :
            /\ u # t
            /\ Abs((u % w) - (t % w)) <= 1
            /\ Abs((u \div w) - (t \div w)) <= 1}

\* --------------------------------------------------------- pure operations
is_mine(t) == value[t] = MINE

\* update with the pressed state tested before the flag.
update_pressed_first(t, flg, cov, dwn) ==
    IF dwn[t] THEN DOWN
    ELSE IF flg[t] THEN FLAGGED
    ELSE IF cov[t] THEN COVERED
    ELSE value[t]

\* Tile.update: the display code of tile t computed from the given fields.
update(t, flg, cov, dwn) ==
    IF flg[t] THEN FLAGGED
    ELSE IF dwn[t] THEN DOWN
    ELSE IF cov[t] THEN COVERED
    ELSE value[t]

\* Tile.update_finish
update_finish(t, flg, cov, dwn) ==
    IF ~flg[t] /\ is_mine(t) THEN UNFLAGGED ELSE update(t, flg, cov, dwn)

\* update_blast with the test for a mine put before the test for an
\* uncovered mine.
update_blast_mine_first(t, flg, cov, dwn) ==
    IF flg[t] /\ ~is_mine(t) THEN WRONGFLAG
    ELSE IF ~flg[t] /\ is_mine(t) THEN MINE
    ELSE IF ~cov[t] /\ is_mine(t) THEN BLAST
    ELSE update(t, flg, cov, dwn)

\* Tile.update_blast
update_blast(t, flg, cov, dwn) ==
    IF flg[t] /\ ~is_mine(t) THEN WRONGFLAG
    ELSE IF ~cov[t] /\ is_mine(t) THEN BLAST
    ELSE IF ~flg[t] /\ is_mine(t) THEN MINE
    ELSE update(t, flg, cov, dwn)

\* Tile.get_status
get_status(t) == status[t]

\* basic_open scheduling the neighbours of every tile it opens, whatever its
\* value.
basic_open_spread(t, cov, bfs) ==
    IF flagged[t] \/ ~cov[t]
    THEN [eff |-> FALSE, to_search |-> {}, cov |-> cov]
    ELSE [eff |-> TRUE, to_search |-> neighbours[t],
          cov |-> [cov EXCEPT ![t] = FALSE]]

\* basic_open flipping the cover of an unflagged tile instead of clearing it.
basic_open_toggle(t, cov, bfs) ==
    IF flagged[t]
    THEN [eff |-> FALSE, to_search |-> {}, cov |-> cov]
    ELSE [eff |-> cov[t],
          to_search |-> IF cov[t] /\ (value[t] = 0
                                      \/ (bfs /\ value[t] = neighbour_flags[t]))
                        THEN neighbours[t] ELSE {},
          cov |-> [cov EXCEPT ![t] = ~cov[t]]]

\* basic_open reporting an unflagged tile effective whether it was covered or
\* not.
basic_open_reports_open(t, cov, bfs) ==
    IF flagged[t]
    THEN [eff |-> FALSE, to_search |-> {}, cov |-> cov]
    ELSE [eff |-> TRUE,
          to_search |-> IF cov[t] /\ (value[t] = 0
                                      \/ (bfs /\ value[t] = neighbour_flags[t]))
                        THEN neighbours[t] ELSE {},
          cov |-> [cov EXCEPT ![t] = FALSE]]

\* basic_open without the test of the flag.
basic_open_ignores_flag(t, cov, bfs) ==
    IF ~cov[t]
    THEN [eff |-> FALSE, to_search |-> {}, cov |-> cov]
    ELSE [eff |-> TRUE,
          to_search |-> IF value[t] = 0 \/ (bfs /\ value[t] = neighbour_flags[t])
                        THEN neighbours[t] ELSE {},
          cov |-> [cov EXCEPT ![t] = FALSE]]

\* Tile.basic_open on tile t with the cover map cov.
basic_open(t, cov, bfs) ==
    IF flagged[t] \/ ~cov[t]
    THEN [eff |-> FALSE, to_search |-> {}, cov |-> cov]
    ELSE [eff |-> TRUE,
          to_search |-> IF value[t] = 0 \/ (bfs /\ value[t] = neighbour_flags[t])
                        THEN neighbours[t] ELSE {},
          cov |-> [cov EXCEPT ![t] = FALSE]]

\* The work queue of Tile.open.  Python iterates a set of Tile objects in the
\* order of their hashes, which follow the objects' addresses: a frontier is
\* put on the queue in any order.  The queue is kept as the sequence of the
\* frontiers put, each one the set of its tiles not yet taken; search.get()
\* takes any tile of the first frontier, which settles the order of a
\* frontier as its tiles are taken.  Take gives every tile that get() can
\* return, with the queue it leaves.
Take(search) ==
    {[t    |-> x,
      rest |-> IF Head(search) = {x} THEN Tail(search)
               ELSE <<Head(search) \ {x}>> \o Tail(search)]
     : x \in Head(search)}

\* for tt in to_search: search.put(tt)
Put(search, to_search) ==
    IF to_search = {} THEN search ELSE Append(search, to_search)

\* One iteration of the loop putting only the first tile of the frontier that
\* basic_open returns.
open_step_first_only(c, bfs) ==
    IF c.search = <<>> THEN {c}
    ELSE UNION {LET r == basic_open(g.t, c.cov, bfs)
                IN  {[search    |-> Put(g.rest, first),
                      cov       |-> r.cov,
                      changed   |-> IF r.eff THEN c.changed \cup {g.t}
                                    ELSE c.changed,
                      effective |-> IF r.eff THEN Append(c.effective, g.t)
                                    ELSE c.effective,
                      dequeues  |-> c.dequeues + 1]
                     : first \in IF r.to_search = {} THEN {{}}
                                 ELSE {{x} : x \in r.to_search}}
                : g \in Take(c.search)}

\* One iteration of the while loop of Tile.open from the configuration c:
\* search is the work queue, cov the cover of the tiles, changed the set of
\* the tiles reported effective, effective the same tiles in the order of the
\* reports, dequeues the number of search.get() calls.  The value is the set
\* of the configurations the iteration can lead to, one for every tile that
\* get() can return; a configuration whose queue is empty is final.
open_step(c, bfs) ==
    IF c.search = <<>> THEN {c}
    ELSE {LET r == basic_open(g.t, c.cov, bfs)
          IN  [search    |-> Put(g.rest, r.to_search),
               cov       |-> r.cov,
               changed   |-> IF r.eff THEN c.changed \cup {g.t} ELSE c.changed,
               effective |-> IF r.eff THEN Append(c.effective, g.t)
                             ELSE c.effective,
               dequeues  |-> c.dequeues + 1]
          : g \in Take(c.search)}

\* The while loop of Tile.open from the configurations C: the configurations
\* it can end in, one for every way of iterating the frontiers.
RECURSIVE open_loop(_, _)
open_loop(C, bfs) ==
    IF \A c \in C : c.search = <<>> THEN C
    ELSE open_loop(UNION {open_step(c, bfs) : c \in C}, bfs)

\* Tile.open (test_op false): the results the call can have.
open(t, cov, bfs) ==
    open_loop({[search |-> <<{t}>>, cov |-> cov, changed |-> {},
                effective |-> <<>>, dequeues |-> 0]}, bfs)

\* The set searched of Tile.open: created empty; the statement adding the
\* dequeued tile to it is commented out.
searched == {}

\* Tile.open, the return statement.
open_return(r, test_op) == IF ~test_op THEN r.changed ELSE searched

\* The generator of Tile.double from the configurations C: todo is the set of
\* the neighbours not yet opened, and the next tile opened is any of them.
RECURSIVE double_loop(_, _)
double_loop(C, bfs) ==
    IF \A c \in C : c.todo = {}
    THEN {[cov |-> c.cov, changed |-> c.changed, err |-> FALSE] : c \in C}
    ELSE double_loop(
             UNION {IF c.todo = {} THEN {c}
                    ELSE UNION {{[todo    |-> c.todo \ {t},
                                  cov     |-> r.cov,
                                  changed |-> c.changed \cup r.changed]
                                 : r \in open(t, c.cov, bfs)}
                                : t \in c.todo}
                    : c \in C},
             bfs)

\* double without the test of the flag count.
double_unchecked(t, cov, bfs) ==
    IF ~cov[t]
    THEN IF neighbours[t] = {}
         THEN {[cov |-> cov, changed |-> {}, err |-> TRUE]}
         ELSE double_loop({[todo |-> neighbours[t], cov |-> cov,
                            changed |-> {}]}, bfs)
    ELSE {[cov |-> cov, changed |-> {}, err |-> FALSE]}

\* Tile.double: the results the call can have; set.union(*()) of no sets
\* raises TypeError.
double(t, cov, bfs) ==
    IF ~cov[t] /\ value[t] = neighbour_flags[t]
    THEN IF neighbours[t] = {}
         THEN {[cov |-> cov, changed |-> {}, err |-> TRUE]}
         ELSE double_loop({[todo |-> neighbours[t], cov |-> cov,
                            changed |-> {}]}, bfs)
    ELSE {[cov |-> cov, changed |-> {}, err |-> FALSE]}

\* flag's first branch without the decrement of the counters.
flag_unset_no_count(t, flg, nf) ==
    [flg |-> [flg EXCEPT ![t] = FALSE], nf |-> nf, ret |-> {t}]

\* Tile.flag, first branch: unflag tile t.
flag_unset(t, flg, nf) ==
    [flg |-> [flg EXCEPT ![t] = FALSE],
     nf  |-> [u \in Tiles |-> IF u \in neighbours[t] THEN nf[u] - 1 ELSE nf[u]],
     ret |-> {t}]

\* flag's second branch incrementing the counter of the tile itself with
\* those of its neighbours.
flag_set_counts_self(t, flg, nf) ==
    [flg |-> [flg EXCEPT ![t] = TRUE],
     nf  |-> [u \in Tiles |-> IF u \in neighbours[t] \cup {t}
                              THEN nf[u] + 1 ELSE nf[u]],
     ret |-> {t}]

\* Tile.flag, second branch: flag the covered tile t.
flag_set(t, flg, nf) ==
    [flg |-> [flg EXCEPT ![t] = TRUE],
     nf  |-> [u \in Tiles |-> IF u \in neighbours[t] THEN nf[u] + 1 ELSE nf[u]],
     ret |-> {t}]

\* flag's easy-flag branch returning every covered neighbour.
flag_easy_returns_covered(t, flg, nf) ==
    LET covered_neighbours == {u \in neighbours[t] : covered[u]}
    IN  IF value[t] = Cardinality(covered_neighbours)
        THEN [flg |-> [u \in Tiles |-> IF u \in covered_neighbours
                                       THEN TRUE ELSE flg[u]],
              nf  |-> [u \in Tiles |->
                         nf[u] + Cardinality({c \in covered_neighbours :
                                                u \in neighbours[c]})],
              ret |-> covered_neighbours]
        ELSE [flg |-> flg, nf |-> nf, ret |-> {}]

\* Tile.flag, easy-flag branch on the open tile t: one increment per covered
\* neighbour c, flagged already or not, on every neighbour of c.
flag_easy(t, flg, nf) ==
    LET covered_neighbours == {u \in neighbours[t] : covered[u]}
        unflagged_neighbours == {u \in neighbours[t] : covered[u] /\ ~flg[u]}
    IN  IF value[t] = Cardinality(covered_neighbours)
        THEN [flg |-> [u \in Tiles |-> IF u \in covered_neighbours
                                       THEN TRUE ELSE flg[u]],
              nf  |-> [u \in Tiles |->
                         nf[u] + Cardinality({c \in covered_neighbours :
                                                u \in neighbours[c]})],
              ret |-> unflagged_neighbours]
        ELSE [flg |-> flg, nf |-> nf, ret |-> {}]

\* Tile.flag on tile t, with the flag map flg and the counters nf.
flag(t, easy_flag, flg, nf) ==
    IF flg[t] THEN flag_unset(t, flg, nf)
    ELSE IF covered[t] THEN flag_set(t, flg, nf)
    ELSE IF easy_flag THEN flag_easy(t, flg, nf)
    ELSE [flg |-> flg, nf |-> nf, ret |-> {}]

\* set_mine incrementing every neighbour, mines too.
set_mine_counts_mines(t) ==
    [u \in Tiles |-> IF u = t THEN MINE
                     ELSE IF u \in neighbours[t] THEN value[u] + 1
                     ELSE value[u]]

\* Tile.set_mine
set_mine(t) ==
    [u \in Tiles |-> IF u = t THEN MINE
                     ELSE IF u \in neighbours[t] /\ value[u] # MINE
                     THEN value[u] + 1
                     ELSE value[u]]

\* left_hold without the test of the flag.
left_hold_any_covered(S, dwn) ==
    [u \in Tiles |-> IF u \in S /\ covered[u] THEN TRUE ELSE dwn[u]]

\* Tile.left_hold on every tile of S, applied to the press map dwn.
left_hold(S, dwn) ==
    [u \in Tiles |-> IF u \in S /\ covered[u] /\ ~flagged[u] THEN TRUE ELSE dwn[u]]

\* Tile.double_hold
double_hold(t, dwn) == left_hold(neighbours[t], left_hold({t}, dwn))

\* unhold without the test of the flag.
unhold_flagged_too(t, dwn) == [dwn EXCEPT ![t] = FALSE]

\* Tile.unhold
unhold(t, dwn) == [dwn EXCEPT ![t] = IF ~flagged[t] THEN FALSE ELSE dwn[t]]

\* recover leaving the stored status as it was.
recover_keeps_status(t, st) ==
    [st EXCEPT !.flagged[t] = FALSE, !.covered[t] = TRUE, !.down[t] = FALSE,
               !.neighbour_flags[t] = 0]

\* Tile.recover on tile t of the board whose fields are the record st.
recover(t, st) ==
    [st EXCEPT !.flagged[t] = FALSE, !.covered[t] = TRUE, !.down[t] = FALSE,
               !.status[t] = COVERED, !.neighbour_flags[t] = 0]

\* ------------------------------------------------------------------ history
Snapshot == [value |-> value, flagged |-> flagged, covered |-> covered,
             down |-> down, neighbour_flags |-> neighbour_flags,
             status |-> status]

Call(op, t, arg, ret, err) ==
    [op |-> op, tile |-> t, arg |-> arg, ret |-> ret, err |-> err,
     eff |-> FALSE, revealed |-> {}]

NoCall == Call("none", 0, FALSE, {}, FALSE)

\* A run makes any number of calls and may observe one of them: the observed
\* call is recorded in last, with the fields it started from in pre, and is the
\* last call of the run.
Observe(call) ==
    \/ last' = call /\ pre' = Snapshot
    \/ last' = NoCall /\ pre' = pre

\* No call has been observed yet: the run goes on.
Playing == last = NoCall

\* --------------------------------------------------------------------- Init
\* Tile.__init__ on every tile, then set_neighbours.
InitOn(shapes) ==
    /\ \E shape \in shapes :
          neighbours = [t \in 0..(shape[1] * shape[2] - 1) |->
                           GridNeighbours(shape, t)]
    /\ value = [t \in Tiles |-> 0]
    /\ flagged = [t \in Tiles |-> FALSE]
    /\ covered = [t \in Tiles |-> TRUE]
    /\ down = [t \in Tiles |-> FALSE]
    /\ status = [t \in Tiles |-> COVERED]
    /\ neighbour_flags = [t \in Tiles |-> 0]
    /\ last = NoCall
    /\ pre = Snapshot

\* Every tile is as Tile.__init__ left it (value apart).
Fresh ==
    \A t \in Tiles : /\ covered[t] /\ ~flagged[t] /\ ~down[t]
                     /\ neighbour_flags[t] = 0 /\ status[t] = COVERED

\* ------------------------------------------------------------------ actions
\* Board construction: set_mine on a tile that is not yet a mine, while the
\* board is fresh.
SetMine(t) ==
    /\ Playing
    /\ Fresh
    /\ ~is_mine(t)
    /\ Cardinality({u \in Tiles : is_mine(u)}) < MaxMines
    /\ value' = set_mine(t)
    /\ UNCHANGED <<neighbours, flagged, covered, down, status, neighbour_flags,
                   last, pre>>

\* basic_open called on tile t directly: the tile alone is uncovered.
BasicOpen(t, bfs) ==
    /\ Playing
    /\ LET r == basic_open(t, covered, bfs)
       IN  /\ covered' = r.cov
           /\ Observe([Call("basic_open", t, bfs, r.to_search, FALSE)
                          EXCEPT !.eff = r.eff])
    /\ UNCHANGED <<neighbours, value, flagged, down, status, neighbour_flags>>

Open(t, bfs) ==
    /\ Playing
    /\ \E r \in open(t, covered, bfs) :
          /\ covered' = r.cov
          /\ Observe(Call("open", t, bfs, r.changed, FALSE))
    /\ UNCHANGED <<neighbours, value, flagged, down, status, neighbour_flags>>

\* open in introspection mode (test_op true); the model makes it the observed
\* call.
OpenTest(t, bfs) ==
    /\ Playing
    /\ \E r \in open(t, covered, bfs) :
          /\ covered' = r.cov
          /\ last' = Call("open_test", t, bfs, open_return(r, TRUE), FALSE)
          /\ pre' = Snapshot
    /\ UNCHANGED <<neighbours, value, flagged, down, status, neighbour_flags>>

\* A call that raises leaves the tiles as they were.
Double(t, bfs) ==
    /\ Playing
    /\ \E r \in double(t, covered, bfs) :
          /\ covered' = r.cov
          /\ Observe(Call("double", t, bfs, r.changed, r.err))
    /\ UNCHANGED <<neighbours, value, flagged, down, status, neighbour_flags>>

Flag(t, easy_flag) ==
    /\ Playing
    /\ LET r == flag(t, easy_flag, flagged, neighbour_flags)
       IN  /\ \A u \in Tiles :
                 r.nf[u] <= Cardinality({n \in neighbours[u] : r.flg[n]})
                            + MaxDrift
           /\ flagged' = r.flg
           /\ neighbour_flags' = r.nf
           /\ Observe(Call("flag", t, easy_flag, r.ret, FALSE))
    /\ UNCHANGED <<neighbours, value, covered, down, status>>

LeftHold(t) ==
    /\ Playing
    /\ down' = left_hold({t}, down)
    /\ Observe(Call("left_hold", t, FALSE, {}, FALSE))
    /\ UNCHANGED <<neighbours, value, flagged, covered, status, neighbour_flags>>

DoubleHold(t) ==
    /\ Playing
    /\ down' = double_hold(t, down)
    /\ Observe(Call("double_hold", t, FALSE, {}, FALSE))
    /\ UNCHANGED <<neighbours, value, flagged, covered, status, neighbour_flags>>

Unhold(t) ==
    /\ Playing
    /\ down' = unhold(t, down)
    /\ Observe(Call("unhold", t, FALSE, {}, FALSE))
    /\ UNCHANGED <<neighbours, value, flagged, covered, status, neighbour_flags>>

\* The renderer's update on tile t; get_status then reads the stored code.
\* status is read by no operation, and the model makes a call that writes it
\* the observed call.
Update(t) ==
    /\ Playing
    /\ status' = [status EXCEPT ![t] = update(t, flagged, covered, down)]
    /\ last' = Call("update", t, FALSE, {}, FALSE)
    /\ pre' = Snapshot
    /\ UNCHANGED <<neighbours, value, flagged, covered, down, neighbour_flags>>

\* update_finish on tile t, the reveal of a game won.
UpdateFinish(t) ==
    /\ Playing
    /\ status' = [status EXCEPT ![t] = update_finish(t, flagged, covered, down)]
    /\ last' = Call("update_finish", t, FALSE, {}, FALSE)
    /\ pre' = Snapshot
    /\ UNCHANGED <<neighbours, value, flagged, covered, down, neighbour_flags>>

\* The observed call was an open or a double that uncovered the first mine of
\* the game.
FirstBlast ==
    /\ last.op \in {"open", "double"}
    /\ \A m \in Tiles : is_mine(m) => pre.covered[m]
    /\ \E m \in Tiles : is_mine(m) /\ ~covered[m]

\* update_blast on tile t, one call of the reveal of a game lost: either the
\* observed call itself, in any state, or a call of the reveal that follows
\* the observed open or double that uncovered the first mine.  The reveal
\* takes the tiles in any order when free, in ascending order otherwise, and
\* revealed records the tiles it has reached.
UpdateBlast(t, free) ==
    /\ status' = [status EXCEPT ![t] = update_blast(t, flagged, covered, down)]
    /\ \/ /\ Playing
          /\ last' = [Call("update_blast", t, FALSE, {}, FALSE)
                          EXCEPT !.revealed = {t}]
          /\ pre' = Snapshot
       \/ /\ FirstBlast
          /\ t \notin last.revealed
          /\ free \/ \A u \in Tiles \ last.revealed : t <= u
          /\ last' = [last EXCEPT !.revealed = @ \cup {t}]
          /\ pre' = pre
    /\ UNCHANGED <<neighbours, value, flagged, covered, down, neighbour_flags>>

\* The observed call has written the status of a tile: update, update_finish
\* or update_blast, or the loss reveal after an open or a double.
Shown ==
    \/ last.op \in {"update", "update_finish", "update_blast"}
    \/ last.revealed # {}

\* recover on tile t, the first step of a new game on the grid, called on a
\* board in play or on the board that a status call or the loss reveal has
\* left; the model makes it the observed call.
Recover(t) ==
    /\ Playing \/ Shown
    /\ LET r == recover(t, Snapshot)
       IN  /\ flagged' = r.flagged
           /\ covered' = r.covered
           /\ down' = r.down
           /\ status' = r.status
           /\ neighbour_flags' = r.neighbour_flags
    /\ last' = Call("recover", t, FALSE, {}, FALSE)
    /\ pre' = Snapshot
    /\ UNCHANGED <<neighbours, value>>

Next ==
    \/ \E t \in Tiles : SetMine(t)
    \/ \E t \in Tiles, bfs \in BOOLEAN : BasicOpen(t, bfs)
    \/ \E t \in Tiles, bfs \in BOOLEAN : Open(t, bfs)
    \/ \E t \in Tiles, bfs \in BOOLEAN : Double(t, bfs)
    \/ \E t \in Tiles, easy_flag \in BOOLEAN : Flag(t, easy_flag)
    \/ \E t \in Tiles : LeftHold(t)
    \/ \E t \in Tiles : DoubleHold(t)
    \/ \E t \in Tiles : Unhold(t)
    \/ \E t \in Tiles : Update(t)
    \/ \E t \in Tiles : UpdateFinish(t)
    \/ \E t \in Tiles : UpdateBlast(t, TRUE)
    \/ \E t \in Tiles : Recover(t)
    \/ \E t \in Tiles, bfs \in BOOLEAN : OpenTest(t, bfs)

\* The loss reveal proceeds in ascending order and flag is called without
\* easy_flag.
NextGame ==
    \/ \E t \in Tiles : SetMine(t)
    \/ \E t \in Tiles, bfs \in BOOLEAN : BasicOpen(t, bfs)
    \/ \E t \in Tiles, bfs \in BOOLEAN : Open(t, bfs)
    \/ \E t \in Tiles, bfs \in BOOLEAN : Double(t, bfs)
    \/ \E t \in Tiles : Flag(t, FALSE)
    \/ \E t \in Tiles : Update(t)
    \/ \E t \in Tiles : UpdateFinish(t)
    \/ \E t \in Tiles : UpdateBlast(t, FALSE)

\* open, double and flag with and without easy_flag, and the calls that write
\* the status.
NextSquare ==
    \/ \E t \in Tiles : SetMine(t)
    \/ \E t \in Tiles, bfs \in BOOLEAN : BasicOpen(t, bfs)
    \/ \E t \in Tiles, bfs \in BOOLEAN : Open(t, bfs)
    \/ \E t \in Tiles, bfs \in BOOLEAN : Double(t, bfs)
    \/ \E t \in Tiles, easy_flag \in BOOLEAN : Flag(t, easy_flag)
    \/ \E t \in Tiles : Update(t)
    \/ \E t \in Tiles : UpdateFinish(t)
    \/ \E t \in Tiles : UpdateBlast(t, TRUE)

Init == InitOn(Shapes)

InitGame == InitOn(GameShapes)

InitSquare == InitOn(SquareShapes)

\* Every call of the engine, on the boards of one row.
Spec == Init /\ [][Next]_vars

\* Games of open, double and plain flag on the 3 x 2 board, with the status
\* calls and the loss reveal.
SpecGame == InitGame /\ [][NextGame]_vars

\* Games of open, double, flag and easy flag on the 2 x 2 board, where every
\* tile is a neighbour of every other.
SpecSquare == InitSquare /\ [][NextSquare]_vars

\* ------------------------------------------------------------------- claims
\* The calls a player makes.
PlayerOps == {"open", "double", "flag", "left_hold", "double_hold", "unhold"}

\* A player's call has been observed.
Played == last.op \in PlayerOps

\* The number of flagged neighbours of tile t under the flag map flg.
FlaggedNeighbours(t, flg) == Cardinality({n \in neighbours[t] : flg[n]})

\* The covered neighbours of tile t under the cover map cov.
CoveredNeighbours(t, cov) == {n \in neighbours[t] : cov[n]}

\* The tiles a call uncovered.
Uncovered == {u \in Tiles : pre.covered[u] /\ ~covered[u]}

\* The fields of every tile are as they were when the observed call began.
FieldsUnchanged ==
    /\ flagged = pre.flagged
    /\ covered = pre.covered
    /\ down = pre.down
    /\ value = pre.value
    /\ neighbour_flags = pre.neighbour_flags

\* C1: after any sequence of flag, open, double, left_hold, double_hold and
\* unhold calls from a fresh board, every tile's neighbour_flags equals the
\* number of its neighbours that are flagged.  The easy-flag branch of flag
\* increments the counters once for every covered neighbour, the already
\* flagged ones too, so the counter runs ahead.
C1_NeighbourFlagsCount ==
    last.op # "recover" =>
        \A t \in Tiles : neighbour_flags[t] = FlaggedNeighbours(t, flagged)

\* C4: open, double and flag are total: no call ends in an error.  double on
\* an open tile with no neighbours and value 0 calls set.union with no
\* argument, which raises TypeError.
C4_NoCallRaises ==
    last.op \in {"open", "double", "flag"} => ~last.err

\* C3: double on an open tile whose value equals its neighbour_flags returns
\* normally, opens every neighbour that was covered and unflagged, carries the
\* flood fill on through the opened tiles of value 0, uncovers no flagged tile
\* and returns exactly the tiles it uncovered.
C3_ChordOpensNeighbours ==
    (/\ last.op = "double"
     /\ ~pre.covered[last.tile]
     /\ value[last.tile] = pre.neighbour_flags[last.tile])
    => /\ ~last.err
       /\ \A u \in neighbours[last.tile] :
             (pre.covered[u] /\ ~pre.flagged[u]) => ~covered[u]
       /\ \A z \in Uncovered :
             value[z] = 0 =>
                 \A u \in neighbours[z] : ~pre.flagged[u] => ~covered[u]
       /\ \A u \in Tiles : pre.flagged[u] => covered[u] = pre.covered[u]
       /\ last.ret = Uncovered

\* C3 on the 3 x 2 board, where every tile has neighbours: the chord does what
\* the claim says.
C3_ChordOnWiredBoard ==
    (\A t \in Tiles : neighbours[t] # {}) => C3_ChordOpensNeighbours

\* C5: an invalid request (open on a flagged or open tile, double on a covered
\* tile or on an open tile whose value differs from its neighbour_flags, flag
\* on an open tile without easy_flag or with a value different from its number
\* of covered neighbours) returns the empty set and changes no field of any
\* tile.
C5_Invalid ==
    LET t == last.tile
    IN  \/ /\ last.op = "open"
           /\ pre.flagged[t] \/ ~pre.covered[t]
        \/ /\ last.op = "double"
           /\ pre.covered[t] \/ value[t] # pre.neighbour_flags[t]
        \/ /\ last.op = "flag"
           /\ ~pre.covered[t]
           /\ ~pre.flagged[t]
           /\ \/ ~last.arg
              \/ value[t] # Cardinality(CoveredNeighbours(t, pre.covered))

\* C5: every invalid open, double or flag request returns the empty set,
\* raises nothing and leaves value, flagged, covered, down and neighbour_flags
\* of every tile as they were.
C5_InvalidIsNoOp ==
    C5_Invalid => (last.ret = {} /\ ~last.err /\ FieldsUnchanged)

\* C5 witness: a chord has been observed on an open numbered tile whose
\* neighbour_flags differs from its value and that has a covered, unflagged
\* neighbour the chord would have opened.
C5_Witness ==
    /\ C5_Invalid
    /\ last.op = "double"
    /\ ~pre.covered[last.tile]
    /\ value[last.tile] > 0
    /\ \E u \in neighbours[last.tile] : pre.covered[u] /\ ~pre.flagged[u]

\* C2: the tiles an open without BFS on tile seed is to uncover: those
\* reachable from the seed along neighbour chains whose tiles were all covered
\* and unflagged when the call began and whose tiles before the last have
\* value 0.
C2_Ok(u) == pre.covered[u] /\ ~pre.flagged[u]

C2_Spread(S) ==
    S \cup {u \in Tiles : C2_Ok(u) /\ \E z \in S : value[z] = 0 /\ u \in neighbours[z]}

RECURSIVE C2_Closure(_)
C2_Closure(S) == IF C2_Spread(S) = S THEN S ELSE C2_Closure(C2_Spread(S))

C2_Region(seed) == C2_Closure({seed})

\* C2: open with BFS false on a covered, unflagged seed uncovers and returns
\* exactly the zero region of the seed with its one-ring border, and changes
\* the cover of no other tile; a seed of non-zero value uncovers only itself,
\* and on a mine-free board with every tile covered and unflagged every tile
\* is uncovered.
C2_FloodFill ==
    (last.op = "open" /\ ~last.arg /\ C2_Ok(last.tile))
    => /\ last.ret = C2_Region(last.tile)
       /\ \A u \in Tiles :
             covered[u] = (pre.covered[u] /\ u \notin C2_Region(last.tile))
       /\ value[last.tile] # 0 => last.ret = {last.tile}
       /\ (\A u \in Tiles : value[u] = 0 /\ C2_Ok(u)) => last.ret = Tiles

\* C2 witness: an open without BFS has uncovered a tile of value 0 and a
\* numbered tile of its border, stopped there (a covered, unflagged tile that
\* is no mine stays covered), and left a flagged tile next to the region
\* covered.
C2_Witness ==
    /\ last.op = "open" /\ ~last.arg /\ C2_Ok(last.tile)
    /\ \E z \in last.ret : value[z] = 0
    /\ \E b \in last.ret : value[b] > 0
    /\ \E u \in Tiles : covered[u] /\ ~flagged[u] /\ value[u] > 0
    /\ \E z \in last.ret : value[z] = 0 /\ \E f \in neighbours[z] : flagged[f]

\* The call observed is an easy flag on an open tile whose value equals the
\* number of its covered neighbours.
C6_Deduction ==
    /\ last.op = "flag" /\ last.arg
    /\ ~pre.covered[last.tile] /\ ~pre.flagged[last.tile]
    /\ value[last.tile] = Cardinality(CoveredNeighbours(last.tile, pre.covered))

\* C6: flag with easy_flag on an open tile whose value equals the number of
\* its covered neighbours leaves every covered neighbour flagged, changes no
\* other flag, and returns exactly the neighbours whose flag went from false
\* to true (the neighbours flagged before are not returned).
C6_EasyFlag ==
    C6_Deduction
    => /\ \A u \in CoveredNeighbours(last.tile, pre.covered) : flagged[u]
       /\ \A u \in Tiles \ CoveredNeighbours(last.tile, pre.covered) :
             flagged[u] = pre.flagged[u]
       /\ last.ret = {u \in Tiles : ~pre.flagged[u] /\ flagged[u]}
       /\ last.ret \subseteq neighbours[last.tile]
       /\ covered = pre.covered

\* C6 witness: the deduction has flagged a neighbour while another covered
\* neighbour was flagged already.
C6_Witness ==
    /\ C6_Deduction
    /\ last.ret # {}
    /\ \E u \in CoveredNeighbours(last.tile, pre.covered) : pre.flagged[u]

\* C7: flag is a 2-cycle on a covered tile: the observed call returns the
\* tile alone and inverts its flag; a second call returns the tile alone and
\* restores the flags and the neighbour_flags of every tile; a third call
\* gives the state the first one gave.
C7_FlagTwoCycle ==
    (last.op = "flag" /\ pre.covered[last.tile])
    => \A e2 \in BOOLEAN, e3 \in BOOLEAN :
         LET t == last.tile
             second == flag(t, e2, flagged, neighbour_flags)
             third == flag(t, e3, second.flg, second.nf)
         IN  /\ last.ret = {t}
             /\ flagged[t] = ~pre.flagged[t]
             /\ second.ret = {t}
             /\ second.flg = pre.flagged
             /\ second.nf = pre.neighbour_flags
             /\ third.ret = {t}
             /\ third.flg = flagged
             /\ third.nf = neighbour_flags

\* C7 witness: a flag call has flagged a covered tile that has neighbours,
\* one of them flagged already.
C7_Witness ==
    /\ last.op = "flag" /\ pre.covered[last.tile]
    /\ ~pre.flagged[last.tile] /\ flagged[last.tile]
    /\ \E u \in neighbours[last.tile] : flagged[u]

\* C8: opening is irreversible: a tile that was open when a player's call
\* began is open when it ends; recover on a tile covers that tile and no
\* other.
C8_OpenStaysOpen ==
    /\ Played => \A t \in Tiles : ~pre.covered[t] => ~covered[t]
    /\ last.op = "recover" =>
          /\ covered[last.tile]
          /\ \A u \in Tiles \ {last.tile} : covered[u] = pre.covered[u]

\* C8 witness: a chord on an open tile has uncovered neighbours and the
\* tile is still open.
C8_Witness ==
    /\ last.op = "double"
    /\ ~pre.covered[last.tile]
    /\ last.ret # {}
    /\ ~covered[last.tile]

\* The display code of tile t as the fields stand now.
DisplayCode(t) ==
    IF flagged[t] THEN FLAGGED
    ELSE IF down[t] THEN DOWN
    ELSE IF covered[t] THEN COVERED
    ELSE value[t]

\* C9 as claimed: after any player's call get_status on every tile is the
\* display code of the tile's present state.
C9_StatusIsCurrent ==
    Played => \A t \in Tiles : get_status(t) = DisplayCode(t)

\* C9 as amended: get_status returns the code that the latest update on the
\* tile stored: right after update on a tile it is the display code of that
\* tile's state, the other tiles keeping theirs, and a player's call changes
\* the status of no tile: it is as it was on every tile no later status call
\* has reached.
C9_StatusIsStored ==
    /\ last.op = "update" =>
          /\ get_status(last.tile) = DisplayCode(last.tile)
          /\ \A u \in Tiles \ {last.tile} : get_status(u) = pre.status[u]
    /\ Played => \A t \in Tiles \ last.revealed : get_status(t) = pre.status[t]

\* C9 witness: update has run on a tile that is flagged and pressed, and
\* get_status gives FLAGGED.
C9_Witness ==
    /\ last.op = "update"
    /\ flagged[last.tile] /\ down[last.tile]
    /\ get_status(last.tile) = FLAGGED

\* The tiles the loss reveal shows as BLAST.
Blasted == {t \in Tiles : get_status(t) = BLAST}

\* update_blast has run on every tile after the call that uncovered the first
\* mine of the game.
C10_Revealed == FirstBlast /\ last.revealed = Tiles

\* C10 as claimed: after the call that uncovers the first mine of the game and
\* update_blast on every tile, BLAST is on exactly one tile, an uncovered
\* mine, MINE on every other unflagged mine, WRONGFLAG on every flagged tile
\* that is no mine, and the display code on every remaining tile.
C10_BlastOnOneTile ==
    C10_Revealed =>
        /\ Cardinality(Blasted) = 1
        /\ \A t \in Tiles :
              get_status(t) =
                  IF flagged[t] /\ ~is_mine(t) THEN WRONGFLAG
                  ELSE IF t \in Blasted THEN BLAST
                  ELSE IF is_mine(t) /\ ~flagged[t] THEN MINE
                  ELSE DisplayCode(t)

\* C10 as amended: the loss reveal shows BLAST on every uncovered mine (one
\* call can uncover several), MINE on every covered unflagged mine, WRONGFLAG
\* on every flagged tile that is no mine, and the display code elsewhere; a
\* tile the reveal has not reached keeps its status.
C10_LossReveal ==
    \A t \in Tiles :
        /\ t \in last.revealed =>
              get_status(t) =
                  IF flagged[t] /\ ~is_mine(t) THEN WRONGFLAG
                  ELSE IF is_mine(t) /\ ~covered[t] THEN BLAST
                  ELSE IF is_mine(t) /\ ~flagged[t] THEN MINE
                  ELSE DisplayCode(t)
        /\ FirstBlast /\ t \notin last.revealed =>
              get_status(t) = pre.status[t]

\* C10 witness: one call has uncovered two mines, update_blast has run on
\* every tile, and the reveal shows BLAST on both mines, WRONGFLAG on a
\* flagged tile that is no mine and the value on an open tile.
C10_Witness ==
    /\ C10_Revealed
    /\ Cardinality(Blasted) = 2
    /\ \E t \in Tiles : get_status(t) = WRONGFLAG
    /\ \E t \in Tiles : get_status(t) \in 0..8

\* The three press calls.
HoldOps == {"left_hold", "double_hold", "unhold"}

\* The tiles a press call addresses: the target, and for double_hold its
\* neighbours.
C11_Targets ==
    IF last.op = "double_hold" THEN {last.tile} \cup neighbours[last.tile]
    ELSE {last.tile}

\* C11: left_hold, double_hold and unhold change no field but down: flagged,
\* covered, value, neighbour_flags and status of every tile stay as they were;
\* left_hold and double_hold clear no press and set down only on addressed
\* tiles that are covered and unflagged; unhold sets no press and changes down
\* on no tile but its target.
C11_HoldFrame ==
    last.op \in HoldOps
    => /\ flagged = pre.flagged /\ covered = pre.covered
       /\ value = pre.value /\ neighbour_flags = pre.neighbour_flags
       /\ status = pre.status
       /\ last.op \in {"left_hold", "double_hold"} =>
             \A u \in Tiles :
                /\ pre.down[u] => down[u]
                /\ (down[u] /\ ~pre.down[u]) =>
                      (u \in C11_Targets /\ covered[u] /\ ~flagged[u])
       /\ last.op = "unhold" =>
             \A u \in Tiles :
                /\ down[u] => pre.down[u]
                /\ u # last.tile => down[u] = pre.down[u]

\* C11 witness: a double_hold on an open tile has pressed a covered neighbour
\* and has left the open tile itself and a flagged neighbour unpressed.
C11_Witness ==
    /\ last.op = "double_hold"
    /\ ~covered[last.tile] /\ ~down[last.tile]
    /\ \E u \in neighbours[last.tile] : down[u] /\ ~pre.down[u]
    /\ \E u \in neighbours[last.tile] : flagged[u] /\ ~down[u]

\* The boards that recover on every tile of S, in any order, can leave when
\* it starts from the board st.
RECURSIVE C12_RecoverAll(_, _)
C12_RecoverAll(S, st) ==
    IF S = {} THEN {st}
    ELSE UNION {C12_RecoverAll(S \ {t}, recover(t, st)) : t \in S}

\* C12: once recover has been called on every tile (the observed call on any
\* first tile, then the other tiles in every order), every tile is covered,
\* unflagged, not pressed, has neighbour_flags 0 and status COVERED, its value
\* is what it was, and every counter equals the number of flagged neighbours.
C12_NewGame ==
    last.op = "recover" =>
        \A fin \in C12_RecoverAll(Tiles \ {last.tile}, Snapshot) :
            /\ \A t \in Tiles :
                  /\ fin.covered[t] /\ ~fin.flagged[t] /\ ~fin.down[t]
                  /\ fin.neighbour_flags[t] = 0
                  /\ fin.status[t] = COVERED
                  /\ fin.neighbour_flags[t] = FlaggedNeighbours(t, fin.flagged)
            /\ fin.value = pre.value

\* C12 witness: recover has begun on a board of a finished game: a mine, a
\* flagged tile, an open tile, a pressed tile, a counter that ran ahead of the
\* flags and, on a tile that recover has not reached yet, a stored status
\* other than COVERED.
C12_Witness ==
    /\ last.op = "recover"
    /\ \E t \in Tiles \ {last.tile} : pre.status[t] # COVERED
    /\ \E t \in Tiles : is_mine(t)
    /\ \E t \in Tiles : pre.flagged[t]
    /\ \E t \in Tiles : ~pre.covered[t]
    /\ \E t \in Tiles : pre.down[t]
    /\ \E t \in Tiles :
          pre.neighbour_flags[t] > FlaggedNeighbours(t, pre.flagged)
    /\ \E t \in Tiles \ {last.tile} : pre.flagged[t] \/ ~pre.covered[t]

\* The sum of the sizes of the neighbour sets of the tiles of S.
RECURSIVE C13_Fanout(_)
C13_Fanout(S) ==
    IF S = {} THEN 0
    ELSE LET t == CHOOSE x \in S : TRUE
         IN  Cardinality(neighbours[t]) + C13_Fanout(S \ {t})

\* C13: every open, with BFS false or true and whatever the order in which
\* the sets are iterated, comes to an end with its queue empty; no tile is
\* reported effective twice; the tiles reported are the tiles uncovered; the
\* dequeues number at most 1 plus the sum of the neighbour-set sizes of the
\* tiles uncovered, hence at most 8 times the grid size plus 1, and at least 1.
C13_OpenTerminates ==
    last.op = "open" =>
        /\ open(last.tile, pre.covered, last.arg) # {}
        /\ \A r \in open(last.tile, pre.covered, last.arg) :
              /\ r.search = <<>>
              /\ \A i, j \in 1..Len(r.effective) :
                    r.effective[i] = r.effective[j] => i = j
              /\ {r.effective[i] : i \in 1..Len(r.effective)} = Uncovered
              /\ r.changed = Uncovered
              /\ r.dequeues >= 1
              /\ r.dequeues <= 1 + C13_Fanout(Uncovered)
              /\ r.dequeues <= Cardinality(Tiles) * 8 + 1

\* C13 witness: an open with BFS has uncovered several tiles and dequeued
\* tiles that were open or flagged already: more dequeues than tiles opened.
C13_Witness ==
    /\ last.op = "open" /\ last.arg
    /\ Cardinality(Uncovered) >= 2
    /\ \E t \in Tiles : flagged[t]
    /\ \E t \in Tiles : value[t] > 0 /\ t \in Uncovered
    /\ \E r \in open(last.tile, pre.covered, last.arg) :
          r.dequeues > Cardinality(Uncovered) + 1

\* C14: the result of open and of double does not depend on the order in
\* which sets of tiles are iterated: from the fields the observed call began
\* with, every order of every set returns the set the call returned and
\* leaves the cover the call left; flagged and neighbour_flags of every tile
\* are as they were.
C14_OrderIndependent ==
    /\ last.op = "open" =>
          \A r \in open(last.tile, pre.covered, last.arg) :
              r.changed = last.ret /\ r.cov = covered
    /\ last.op = "double" =>
          \A r \in double(last.tile, pre.covered, last.arg) :
              r.changed = last.ret /\ r.cov = covered /\ r.err = last.err
    /\ last.op \in {"open", "double"} =>
          flagged = pre.flagged /\ neighbour_flags = pre.neighbour_flags

\* The tiles an open of tile t uncovers from the cover the observed call
\* began with.
C14_Reach(t) == UNION {r.changed : r \in open(t, pre.covered, last.arg)}

\* C14 witness: a chord has uncovered two neighbours each of which the open
\* of the other uncovers too, so that the order in which the neighbours are
\* opened decides which open uncovers them.
C14_Witness ==
    /\ last.op = "double"
    /\ \E u, v \in neighbours[last.tile] :
          /\ u # v
          /\ {u, v} \subseteq last.ret
          /\ v \in C14_Reach(u)
          /\ u \in C14_Reach(v)

\* The number of neighbours of tile t that are mines.
MineNeighbours(t) == Cardinality({n \in neighbours[t] : is_mine(n)})

\* C15: whatever the order of the set_mine calls on distinct tiles, every
\* tile either is a mine or has for value the number of its neighbours that
\* are mines, a count in 0..8; and no open, double, flag, hold, unhold,
\* update or recover call changes the value of a tile.
C15_ValuesAreCounts ==
    /\ \A t \in Tiles :
          \/ value[t] = MINE
          \/ value[t] \in 0..8 /\ value[t] = MineNeighbours(t)
    /\ last # NoCall => value = pre.value

\* C15 witness: two mines that are neighbours of each other have been placed,
\* a third tile counts one of them, and a call of the game has been made
\* since.
C15_Witness ==
    /\ Played
    /\ \E a \in Tiles, b \in Tiles :
          /\ is_mine(a) /\ is_mine(b)
          /\ a \in neighbours[b]
          /\ \E c \in neighbours[b] : value[c] >= 1

\* C16: a flag call on a covered tile T inverts T.flagged, changes
\* neighbour_flags of each neighbour of T by +1 when it flags and by -1 when
\* it unflags, and leaves neighbour_flags of every other tile (T included),
\* flagged of every other tile, and covered, down and value of every tile as
\* they were.
C16_FlagFrame ==
    (last.op = "flag" /\ pre.covered[last.tile])
    => LET t == last.tile
           step == IF pre.flagged[t] THEN 0 - 1 ELSE 1
       IN  /\ flagged[t] = ~pre.flagged[t]
           /\ \A u \in neighbours[t] :
                 neighbour_flags[u] = pre.neighbour_flags[u] + step
           /\ \A u \in Tiles \ neighbours[t] :
                 neighbour_flags[u] = pre.neighbour_flags[u]
           /\ \A u \in Tiles \ {t} : flagged[u] = pre.flagged[u]
           /\ covered = pre.covered /\ down = pre.down /\ value = pre.value

\* C16 witness: a flag call has unflagged a tile that has a neighbour and a
\* tile that is not its neighbour, both with a counter above 0 before.
C16_Witness ==
    /\ last.op = "flag" /\ pre.covered[last.tile]
    /\ pre.flagged[last.tile] /\ ~flagged[last.tile]
    /\ \E u \in neighbours[last.tile] : neighbour_flags[u] > 0
    /\ \E u \in Tiles \ (neighbours[last.tile] \cup {last.tile}) :
          neighbour_flags[u] > 0

\* The tiles an open dequeues and passes to basic_open: the seed and the
\* neighbours of every tile that it uncovered and spread from.
C17_Examined ==
    {last.tile} \cup
    UNION {neighbours[z] : z \in {u \in Uncovered :
                                     \/ value[u] = 0
                                     \/ last.arg /\ value[u] = neighbour_flags[u]}}

\* C17: open in introspection mode returns the set of the tiles examined,
\* which holds the seed and every tile the call uncovered.  The code returns
\* the set searched, to which nothing is added: the empty set.
C17_ExaminedSet ==
    last.op = "open_test" =>
        /\ last.ret = C17_Examined
        /\ last.tile \in last.ret
        /\ Uncovered \subseteq last.ret

\* C18: in every reachable state no tile is both flagged and open: an open
\* or a chord uncovers no flagged tile, and flag, with or without easy_flag,
\* flags no open tile.
C18_FlaggedIsCovered ==
    \A t \in Tiles : flagged[t] => covered[t]

\* C18 witness: an open or a chord has spread from a tile it uncovered next
\* to a flagged tile, which is still covered while an unflagged neighbour of
\* the same tile was uncovered.
C18_Witness ==
    /\ last.op \in {"open", "double"}
    /\ \E z \in Uncovered :
          /\ value[z] = 0 \/ (last.arg /\ value[z] = neighbour_flags[z])
          /\ \E f \in neighbours[z] : flagged[f] /\ covered[f]
          /\ \E u \in neighbours[z] : u \in Uncovered

\* C19: when every flagged tile is a mine, an open without BFS on a tile
\* that is no mine, and a chord on any tile, uncover no mine.  After an easy
\* flag has counted a flagged neighbour twice (C1), a numbered tile can have
\* neighbour_flags equal to its value while a mine next to it is unflagged,
\* and the chord on it opens that mine.
C19_NoMineUncovered ==
    (/\ \/ last.op = "open" /\ ~last.arg /\ ~is_mine(last.tile)
        \/ last.op = "double"
     /\ \A t \in Tiles : pre.flagged[t] => is_mine(t))
    => \A m \in Tiles : (is_mine(m) /\ pre.covered[m]) => covered[m]

\* C20 as claimed: once unhold has been called on a tile after its last
\* hold, the tile is not pressed while it is flagged or open.
C20_NoPressAfterRelease ==
    last.op = "unhold" =>
        ((flagged[last.tile] \/ ~covered[last.tile]) => ~down[last.tile])

\* C20 as amended: unhold clears down on its target unless the target is
\* flagged, in which case down stays as it was and the tile displays FLAGGED;
\* after unhold an unflagged target, covered or open, is not pressed and does
\* not display DOWN; and a call other than left_hold and double_hold presses
\* no tile.
C20_ReleaseUnlessFlagged ==
    /\ last.op = "unhold" =>
          /\ ~flagged[last.tile] => ~down[last.tile]
          /\ flagged[last.tile] => down[last.tile] = pre.down[last.tile]
          /\ DisplayCode(last.tile) # DOWN
    /\ (last # NoCall /\ last.op \notin {"left_hold", "double_hold"}) =>
          \A u \in Tiles : down[u] => pre.down[u]

\* C20 witness: unhold has run on a tile that was pressed and then flagged:
\* the tile is still pressed, and the flag call that unflags it makes it
\* display DOWN with no new hold.
C20_Witness ==
    /\ last.op = "unhold"
    /\ flagged[last.tile] /\ down[last.tile]
    /\ update(last.tile,
              flag(last.tile, FALSE, flagged, neighbour_flags).flg,
              covered, down) = DOWN

====
